---- MODULE Spec2Model ----
(***************************************************************************)
(* Payment ingestion (POST /api/integrations/privatbank/fetch) and receipt *)
(* issuance (POST /api/receipts/create) over the companies / payments /    *)
(* receipts tables.  Every handler is cut at its awaits: one action per    *)
(* stretch of code between two awaits, so that concurrent requests         *)
(* interleave exactly where the event loop lets them.  The account         *)
(* classifier (isTargetAccount, in its three definitions) is applied to    *)
(* account values held as character sequences, and the init-db and         *)
(* update-is-target-patterns scripts act on the same payments table.       *)
(***************************************************************************)
EXTENDS Integers, Sequences, FiniteSets, TLC

NULL == "NULL"

\* ---------------------------------------------------------------- bounds
\* number of POST /api/receipts/create requests in a behaviour
MaxIssue == 2
\* number of POST /api/integrations/privatbank/fetch requests in a behaviour
MaxIngest == 2
\* longest bank response (number of transactions)
MaxTx == 2

\* calls of handleIssueReceipt in the browser
MaxClicks == 3

\* whole hryvnias of the amounts converted
MaxUah == 2

Clicks == 1..MaxClicks

IssueCalls == 1..MaxIssue
IngestCalls == 1..MaxIngest

\* ------------------------------------------------------------- the store
\* rows of the companies table (ids handed out by SERIAL)
Companies == {1, 2}
\* a companyId of a request that matches no row
NoSuchCompany == Cardinality(Companies) + 1

\* a companies row as far as the two handlers read it
ConfiguredCompany ==
  [ name                           |-> "company",
    tax_id                         |-> "87654321",
    pb_merchant_id                 |-> "merchant",
    pb_api_token_encrypted         |-> "enc",
    checkbox_license_key_encrypted |-> "enc",
    checkbox_cashier_login         |-> "cashier",
    checkbox_cashier_pin_encrypted |-> "enc" ]

\* the companies table: company 1 has a tax_id that getProductTitle knows
CompanyRows ==
  [ c \in Companies |->
      [ConfiguredCompany EXCEPT
         !.tax_id = IF c = 1 THEN "2593712430" ELSE @] ]

\* --------------------------------------------------- account classifier
\* a nullable string: null, or the sequence of its characters
NullAccount == [null |-> TRUE, chars |-> <<>>]
Account(chars) == [null |-> FALSE, chars |-> chars]

\* longest generated account string (the accounts of the source's examples,
\* 29 characters long, are added as they are written there)
MaxAccountLength == 20

NON_TARGET_PATTERNS ==
  { <<"2", "6", "0", "0">>, <<"2", "9", "0", "2">>,
    <<"2", "9", "0", "9">>, <<"2", "9", "2", "0">> }

\* 'UA813005280000026548000000014'
NOVA_POSHTA_ACCOUNT ==
  <<"U", "A", "8", "1", "3", "0", "0", "5", "2", "8", "0", "0", "0", "0", "0",
    "2", "6", "5", "4", "8", "0", "0", "0", "0", "0", "0", "0", "1", "4">>

\* 'UA783220010000012345678901234', the target example of the doc comments
TargetExample ==
  <<"U", "A", "7", "8", "3", "2", "2", "0", "0", "1", "0", "0", "0", "0", "0",
    "1", "2", "3", "4", "5", "6", "7", "8", "9", "0", "1", "2", "3", "4">>

\* 'UA843052990000026001031613189', the non-target example ('2600')
NonTargetExample ==
  <<"U", "A", "8", "4", "3", "0", "5", "2", "9", "9", "0", "0", "0", "0", "0",
    "2", "6", "0", "0", "1", "0", "3", "1", "6", "1", "3", "1", "8", "9">>

\* 'UA123456789', the sender account of a sample payment
SampleAccount ==
  <<"U", "A", "1", "2", "3", "4", "5", "6", "7", "8", "9">>

\* String.prototype.substring(start, end) with 0 <= start <= end, both
\* clamped to the length of the string
substring(s, start, end) ==
  LET clamp(n) == IF n > Len(s) THEN Len(s) ELSE n
  IN SubSeq(s, clamp(start) + 1, clamp(end))

\* SQL SUBSTRING(s FROM start FOR count), 1-indexed
SUBSTRING(s, start, count) ==
  LET last == IF start + count - 1 > Len(s) THEN Len(s) ELSE start + count - 1
  IN SubSeq(s, start, last)

\* isTargetAccount of the account utilities imported by the ingestion
\* handler: window at 15..18, no excluded account
isTargetAccount(senderAccount) ==
  IF senderAccount.null \/ senderAccount.chars = <<>>
       \/ Len(senderAccount.chars) < 19
    THEN FALSE
    ELSE LET patternSection == substring(senderAccount.chars, 15, 19)
             isNonTarget == patternSection \in NON_TARGET_PATTERNS
         IN ~isNonTarget

\* isTargetAccount next to NOVA_POSHTA_ACCOUNT: window at 15..18 and the
\* courier account excluded
isTargetAccountNovaPoshta(senderAccount) ==
  IF senderAccount.null \/ senderAccount.chars = <<>>
       \/ Len(senderAccount.chars) < 19
    THEN FALSE
  ELSE IF senderAccount.chars = NOVA_POSHTA_ACCOUNT
    THEN FALSE
  ELSE LET patternSection == substring(senderAccount.chars, 15, 19)
           isNonTarget == patternSection \in NON_TARGET_PATTERNS
       IN ~isNonTarget

\* isTargetAccount with the window at 14..17 and the length test at 18
isTargetAccount14to17(senderAccount) ==
  IF senderAccount.null \/ senderAccount.chars = <<>>
       \/ Len(senderAccount.chars) < 18
    THEN FALSE
    ELSE LET patternSection == substring(senderAccount.chars, 14, 18)
             isNonTarget == patternSection \in NON_TARGET_PATTERNS
         IN ~isNonTarget

\* the CASE of the migration that adds the is_target column
addIsTargetColumn(sender_account) ==
  IF sender_account.null \/ Len(sender_account.chars) < 19 THEN FALSE
  ELSE IF SUBSTRING(sender_account.chars, 16, 4) \in NON_TARGET_PATTERNS
    THEN FALSE
  ELSE TRUE

\* a CASE that reads the pattern one character early: SUBSTRING(... FROM 15
\* FOR 4)
updateIsTargetPatternsFrom15(sender_account) ==
  IF sender_account.null \/ Len(sender_account.chars) < 19 THEN FALSE
  ELSE IF SUBSTRING(sender_account.chars, 15, 4) \in NON_TARGET_PATTERNS
    THEN FALSE
  ELSE TRUE

\* the CASE of UPDATE payments SET is_target = ... in the maintenance script
updateIsTargetPatterns(sender_account) ==
  IF sender_account.null \/ Len(sender_account.chars) < 19 THEN FALSE
  ELSE IF SUBSTRING(sender_account.chars, 16, 4) \in NON_TARGET_PATTERNS
    THEN FALSE
  ELSE TRUE

\* a string of that length: zeros, with a 4-character pattern written from
\* 0-indexed position at on, as far as it fits
Filled(length, at, pattern) ==
  [ i \in 1..length |->
      IF i > at /\ i <= at + Len(pattern) THEN pattern[i - at] ELSE "0" ]

\* the account values the classifiers are applied to
Accounts ==
  {NullAccount}
    \cup { Account(chars) :
             chars \in {NOVA_POSHTA_ACCOUNT, TargetExample, NonTargetExample,
                        SampleAccount} }
    \cup { Account(Filled(length, at, pattern)) :
             length \in 0..MaxAccountLength, at \in {14, 15, 16},
             pattern \in NON_TARGET_PATTERNS \cup {<<"1", "2", "3", "4">>} }

\* ------------------------------------------------------ bank transactions
\* a DECIMAL(10, 2) amount: hryvnias and kopiyky
Decimal(uah, kop) == [uah |-> uah, kop |-> kop]

\* raw transactions the bank can return; wellFormed = FALSE is a record
\* that parsePrivatBankTransaction rejects
BankTransactions ==
  { [ID |-> "T1", SUM |-> Decimal(1500, 0), wellFormed |-> TRUE,
     payerAccount |-> Account(TargetExample)],
    [ID |-> "T2", SUM |-> Decimal(750, 50), wellFormed |-> TRUE,
     payerAccount |-> Account(NonTargetExample)],
    [ID |-> "T3", SUM |-> Decimal(0, 0), wellFormed |-> FALSE,
     payerAccount |-> NullAccount] }

\* transactions of the courier account and of an account too short to
\* carry a pattern
CourierTransactions ==
  { [ID |-> "T4", SUM |-> Decimal(320, 0), wellFormed |-> TRUE,
     payerAccount |-> Account(NOVA_POSHTA_ACCOUNT)],
    [ID |-> "T5", SUM |-> Decimal(1100, 0), wellFormed |-> TRUE,
     payerAccount |-> Account(SampleAccount)] }

\* the optional credential columns of a company: POST /api/companies stores
\* null for each one that is not given, and never sets the cashier login
FiscalCredentialFields ==
  { "checkbox_license_key_encrypted", "checkbox_cashier_login",
    "checkbox_cashier_pin_encrypted" }

BankCredentialFields == {"pb_merchant_id", "pb_api_token_encrypted"}

\* a companies row with some of its columns null
Cleared(row, columns) ==
  [ f \in DOMAIN row |-> IF f \in columns THEN NULL ELSE row[f] ]

\* the companies tables in which any of these columns may be null
CompanyTables(columns) ==
  { [ c \in Companies |-> Cleared(CompanyRows[c], absent[c]) ] :
      absent \in [Companies -> SUBSET columns] }

VARIABLES
  companies,   \* companies table: id -> row
  payments,    \* payments table, in insertion order
  receipts,    \* receipts table, in insertion order
  issue,       \* the POST /api/receipts/create requests
  ingest,      \* the POST /api/integrations/privatbank/fetch requests
  probe,       \* an account value and what the classifiers return for it
  initDb,      \* position of a run of the init-db script
  companyRoute, \* the last response of GET /api/companies[/id]
  conversion,  \* an amount and what the conversion to kopiyky returns for it
  list         \* the state of the PaymentList component in the browser

\* the state outside the two request handlers
\* the company routes, the amount conversion and the payment list of the
\* browser, which the two handlers above never touch
aside == <<companyRoute, conversion, list>>

offline == <<probe, initDb, aside>>

vars ==
  <<companies, payments, receipts, issue, ingest, probe, initDb,
    companyRoute, conversion, list>>

\* ------------------------------------------------------------ SQL helpers
\* SELECT ... FROM payments p WHERE p.id = paymentId
PaymentRows(paymentId) ==
  { i \in 1..Len(payments) : payments[i].id = paymentId }

\* SELECT id FROM payments WHERE external_id = e AND company_id = c LIMIT 1
existingPayment(e, c) ==
  { i \in 1..Len(payments) :
      payments[i].external_id = e /\ payments[i].company_id = c }

\* a payments table without the UNIQUE constraint
ExternalIdConflictOff(e) == {}

\* payments.external_id VARCHAR(255) UNIQUE: the rows an INSERT of e
\* conflicts with
ExternalIdConflict(e) ==
  { i \in 1..Len(payments) : payments[i].external_id = e }

\* the throw of parsePrivatBankTransaction on a record it cannot map
parsePrivatBankTransaction(tx) ==
  IF tx.wellFormed
    THEN [ok |-> TRUE, external_id |-> tx.ID, amount |-> tx.SUM,
          sender_account |-> tx.payerAccount]
    ELSE [ok |-> FALSE, external_id |-> NULL, amount |-> Decimal(0, 0),
          sender_account |-> NullAccount]

\* the row INSERT INTO payments stores: receipt_issued false, is_target
\* from the classifier, receipt_id left to its default
NewPayment(id, companyId, payment) ==
  [ id             |-> id,
    company_id     |-> companyId,
    external_id    |-> payment.external_id,
    amount         |-> payment.amount,
    sender_account |-> payment.sender_account,
    receipt_issued |-> FALSE,
    receipt_id     |-> NULL,
    is_target      |-> isTargetAccount(payment.sender_account) ]

\* no id yet: SERIAL ids and the fiscal API's receipt ids start at 1
NoId == 0

\* an optional property that was not given
undefined == "undefined"

\* getProductTitle: the switch on company.tax_id (titles transliterated)
getProductTitle(company, payment) ==
  CASE company.tax_id = "2593712430" -> "Perekhidnyk HDMI-VGA"
    [] company.tax_id = "123456789"  -> "Kosmetychni tovary"
    [] OTHER                         -> "Perekhidnyk HDMI-RCA"

\* a floating-point number is an integer count of 1/Scale
Scale == 10000

\* the error of the double nearest to a decimal, in 1/Scale: below 2^-26 for
\* a DECIMAL(10, 2), taken here as any of a whole unit of 1/Scale
FloatErrors == -1..1

\* parseInt in the place of parseFloat: the decimals are dropped
parseInt(amount, error) == amount.uah * Scale

\* parseFloat(payment.amount) of the DECIMAL(10, 2) column
parseFloat(amount, error) ==
  amount.uah * Scale + amount.kop * (Scale \div 100) + error

\* Math.round: the nearest integer, halves upwards
MathRound(x) == (x + Scale \div 2) \div Scale

\* uahToKopiyky of the fiscal client: Math.round(uah * 100)
uahToKopiyky(uah) == MathRound(uah * 100)

\* the receipt request built for a payment row joined with its company:
\* companyInfo carries id and name only
receiptData(payment, company) ==
  LET amountInKopiyky ==
        CHOOSE k \in { uahToKopiyky(parseFloat(payment.amount, e)) :
                         e \in FloatErrors } : TRUE
      companyInfo == [ id |-> payment.company_id, name |-> company.name,
                       tax_id |-> undefined ]
  IN [ name  |-> getProductTitle(companyInfo, payment),
       price |-> amountInKopiyky,
       value |-> amountInKopiyky ]

\* no request built yet
NoReceiptData == [name |-> NULL, price |-> 0, value |-> 0]

\* a request that has not arrived yet
IdleIssue ==
  [ pc |-> "idle", paymentId |-> 0, payment |-> NULL, submitted |-> FALSE,
    fiscalRequests |-> 0, receiptData |-> NoReceiptData,
    checkboxReceipt |-> NoId, receiptId |-> NoId, status |-> 0,
    error |-> NULL ]

\* no record of the response read yet
NoTransaction ==
  [ ID |-> NULL, SUM |-> Decimal(0, 0), wellFormed |-> FALSE,
    payerAccount |-> NullAccount ]

IdleIngest ==
  [ pc |-> "idle", companyId |-> 0, total_fetched |-> 0, i |-> 1,
    tx |-> NoTransaction, newPayments |-> 0, duplicates |-> 0, errors |-> 0,
    status |-> 0, error |-> NULL ]

\* no account under classification
IdleProbe ==
  [ pc |-> "idle", account |-> NullAccount, isTargetAccount |-> FALSE,
    isTargetAccountNovaPoshta |-> FALSE, isTargetAccount14to17 |-> FALSE,
    updateIsTargetPatterns |-> FALSE, addIsTargetColumn |-> FALSE ]

\* decrypt of lib/encryption: the plaintext of a ciphertext that encrypt
\* produced, and an exception (null here) for any other value
decrypt(encrypted) == IF encrypted = "enc" THEN "secret" ELSE NULL

\* safeDecrypt of the company routes: null stays null, and an exception of
\* decrypt becomes null
safeDecrypt(encrypted) == IF encrypted = NULL THEN NULL ELSE decrypt(encrypted)

\* no company route answered yet
IdleCompanyRoute == [ status |-> 0, companies |-> <<>> ]

\* no amount under conversion
IdleConversion ==
  [ pc |-> "idle", amount |-> Decimal(0, 0), error |-> 0, kopiyky |-> 0 ]

\* the rows the list has loaded: payment 3 is not a target
ListRows ==
  [ id \in 1..3 |-> [ receipt_issued |-> FALSE, is_target |-> id # 3 ] ]

\* a call of handleIssueReceipt that has not been made
IdleClick == [ pc |-> "idle", paymentId |-> NoId, ok |-> FALSE ]

\* the list as loaded, with nothing clicked
IdleList ==
  [ token |-> TRUE, page |-> "list", loading |-> FALSE,
    issuingReceipt |-> NoId, payments |-> ListRows,
    calls |-> [ c \in Clicks |-> IdleClick ] ]

InitAside ==
  /\ companyRoute = IdleCompanyRoute
  /\ conversion = IdleConversion
  /\ list = IdleList

Init ==
  /\ companies = CompanyRows
  /\ payments = <<>>
  /\ receipts = <<>>
  /\ issue = [k \in IssueCalls |-> IdleIssue]
  /\ ingest = [j \in IngestCalls |-> IdleIngest]
  /\ probe = IdleProbe
  /\ initDb = "idle"
  /\ InitAside

\* the payments tables ingestion leaves behind: rows of well-formed bank
\* transactions with distinct external ids, numbered in insertion order
IngestedTables ==
  LET WellFormed == { tx \in BankTransactions : tx.wellFormed }
      Keys == UNION { [1..n -> Companies \X WellFormed] :
                        n \in 0..Cardinality(WellFormed) }
  IN { [ i \in DOMAIN t |->
           NewPayment(i, t[i][1], parsePrivatBankTransaction(t[i][2])) ] :
         t \in { u \in Keys :
                  \A a, b \in DOMAIN u : a # b => u[a][2].ID # u[b][2].ID } }

InitIssue ==
  /\ companies = CompanyRows
  /\ payments \in IngestedTables
  /\ receipts = <<>>
  /\ issue = [k \in IssueCalls |-> IdleIssue]
  /\ ingest = [j \in IngestCalls |-> IdleIngest]
  /\ probe = IdleProbe
  /\ initDb = "idle"
  /\ InitAside

\* --------------------------------------------- POST /api/receipts/create
\* a handler that answers success without the flag having been written
MarkIssuedNoop(paymentId) == payments

\* UPDATE payments SET receipt_issued = true WHERE id = paymentId
MarkIssued(paymentId) ==
  [ i \in 1..Len(payments) |->
      IF payments[i].id = paymentId
        THEN [payments[i] EXCEPT !.receipt_issued = TRUE]
        ELSE payments[i] ]

\* the response of a request and the end of its handler
IssueRespond(k, status, error) ==
  issue' = [issue EXCEPT ![k].pc = "done", ![k].status = status,
                         ![k].error = error]

\* requests are numbered in their order of arrival
IssueArrives(k) ==
  /\ issue[k].pc = "idle"
  /\ \A h \in IssueCalls : h < k => issue[h].pc # "idle"

\* a credential check that forgets the cashier login
CredentialsMissingNoLogin(c) ==
  \/ c.checkbox_license_key_encrypted = NULL
  \/ c.checkbox_cashier_pin_encrypted = NULL

\* the three Checkbox credential fields of a joined payment row
CredentialsMissing(c) ==
  \/ c.checkbox_license_key_encrypted = NULL
  \/ c.checkbox_cashier_login = NULL
  \/ c.checkbox_cashier_pin_encrypted = NULL

\* the idempotency guard left out
AlreadyIssuedNever(p) == FALSE

\* the idempotency guard on the row that was read
AlreadyIssued(p) == p.receipt_issued

\* from the request to the call of checkboxIssueReceipt: SELECT of the
\* payment joined with its company, the three guards, decryption, and the
\* receipt request sent to the fiscal API
IssueSelect(k, paymentId) ==
  /\ IssueArrives(k)
  /\ IF PaymentRows(paymentId) = {}
       THEN issue' = [issue EXCEPT ![k].pc = "done",
                        ![k].paymentId = paymentId, ![k].status = 404,
                        ![k].error = "Payment not found"]
       ELSE LET p == payments[CHOOSE i \in PaymentRows(paymentId) : TRUE]
                c == companies[p.company_id]
            IN IF AlreadyIssued(p)
                 THEN issue' = [issue EXCEPT ![k].pc = "done",
                        ![k].paymentId = paymentId, ![k].payment = p,
                        ![k].status = 400,
                        ![k].error = "Receipt already issued"]
               ELSE IF CredentialsMissing(c)
                 THEN issue' = [issue EXCEPT ![k].pc = "done",
                        ![k].paymentId = paymentId, ![k].payment = p,
                        ![k].status = 400,
                        ![k].error = "Checkbox credentials not configured"]
               ELSE issue' = [issue EXCEPT ![k].pc = "checkbox",
                        ![k].paymentId = paymentId, ![k].payment = p,
                        ![k].submitted = TRUE,
                        ![k].fiscalRequests = 1,
                        ![k].receiptData = receiptData(p, c)]
  /\ UNCHANGED <<companies, payments, receipts, ingest, offline>>

\* decrypt throws on one of the two ciphertexts: the outer catch answers 500
IssueDecryptFails(k, paymentId) ==
  /\ IssueArrives(k)
  /\ PaymentRows(paymentId) # {}
  /\ LET p == payments[CHOOSE i \in PaymentRows(paymentId) : TRUE]
     IN /\ ~AlreadyIssued(p)
        /\ ~CredentialsMissing(companies[p.company_id])
        /\ issue' = [issue EXCEPT ![k].pc = "done",
                        ![k].paymentId = paymentId, ![k].payment = p,
                        ![k].status = 500,
                        ![k].error = "Failed to create receipt"]
  /\ UNCHANGED <<companies, payments, receipts, ingest, offline>>

\* checkboxIssueReceipt resolves: the fiscal API created a receipt; its id is
\* fresh for every request, here the number of the request
IssueCheckboxOk(k) ==
  /\ issue[k].pc = "checkbox"
  /\ issue' = [issue EXCEPT ![k].pc = "insert",
                            ![k].checkboxReceipt = k]
  /\ UNCHANGED <<companies, payments, receipts, ingest, offline>>

\* a failure path that flags the payment before the fiscal outcome is known
IssueCheckboxFailsMarking(k) ==
  /\ issue[k].pc = "checkbox"
  /\ payments' = MarkIssued(issue[k].paymentId)
  /\ IssueRespond(k, 502, "Failed to create receipt in Checkbox")
  /\ UNCHANGED <<companies, receipts, ingest, offline>>

\* a failure path that sends the receipt request once more before it
\* gives up
IssueCheckboxFailsRetries(k) ==
  /\ issue[k].pc = "checkbox"
  /\ IF issue[k].fiscalRequests < 2
       THEN issue' = [issue EXCEPT ![k].fiscalRequests = @ + 1]
       ELSE IssueRespond(k, 502, "Failed to create receipt in Checkbox")
  /\ UNCHANGED <<companies, payments, receipts, ingest, offline>>

\* checkboxIssueReceipt throws (network, auth, business rule): 502
IssueCheckboxFails(k) ==
  /\ issue[k].pc = "checkbox"
  /\ IssueRespond(k, 502, "Failed to create receipt in Checkbox")
  /\ UNCHANGED <<companies, payments, receipts, ingest, offline>>

\* an INSERT that stores the amount sent to the fiscal API, in kopiyky,
\* where the payment's amount belongs
IssueInsertReceiptKopiyky(k) ==
  /\ issue[k].pc = "insert"
  /\ LET receiptId == Len(receipts) + 1
     IN /\ receipts' = Append(receipts,
              [ id                  |-> receiptId,
                company_id          |-> issue[k].payment.company_id,
                payment_id          |-> issue[k].paymentId,
                checkbox_receipt_id |-> issue[k].checkboxReceipt,
                amount              |-> Decimal(issue[k].receiptData.price, 0) ])
        /\ issue' = [issue EXCEPT ![k].pc = "update",
                                  ![k].receiptId = receiptId]
  /\ UNCHANGED <<companies, payments, ingest, offline>>

\* INSERT INTO receipts ... RETURNING id
IssueInsertReceipt(k) ==
  /\ issue[k].pc = "insert"
  /\ LET receiptId == Len(receipts) + 1
     IN /\ receipts' = Append(receipts,
              [ id                  |-> receiptId,
                company_id          |-> issue[k].payment.company_id,
                payment_id          |-> issue[k].paymentId,
                checkbox_receipt_id |-> issue[k].checkboxReceipt,
                amount              |-> issue[k].payment.amount ])
        /\ issue' = [issue EXCEPT ![k].pc = "update",
                                  ![k].receiptId = receiptId]
  /\ UNCHANGED <<companies, payments, ingest, offline>>

\* the INSERT is rejected by the store: the outer catch answers 500
IssueInsertFails(k) ==
  /\ issue[k].pc = "insert"
  /\ IssueRespond(k, 500, "Failed to create receipt")
  /\ UNCHANGED <<companies, payments, receipts, ingest, offline>>

\* the UPDATE and the success response
IssueUpdatePayment(k) ==
  /\ issue[k].pc = "update"
  /\ payments' = MarkIssued(issue[k].paymentId)
  /\ IssueRespond(k, 200, NULL)
  /\ UNCHANGED <<companies, receipts, ingest, offline>>

\* the UPDATE is rejected by the store: the outer catch answers 500
IssueUpdateFails(k) ==
  /\ issue[k].pc = "update"
  /\ IssueRespond(k, 500, "Failed to create receipt")
  /\ UNCHANGED <<companies, payments, receipts, ingest, offline>>

\* ------------------------------------------------ PUT /api/companies/[id]
\* the two Checkbox secrets a PUT can set or clear
CheckboxSecretFields ==
  {"checkbox_license_key_encrypted", "checkbox_cashier_pin_encrypted"}

\* UPDATE companies SET <field> = encrypt(value) or null WHERE id = c
UpdateCompany(c, field, value) ==
  /\ companies[c][field] # value
  /\ companies' = [companies EXCEPT ![c][field] = value]
  /\ UNCHANGED <<payments, receipts, issue, ingest, offline>>

\* ------------------------------- POST /api/integrations/privatbank/fetch
IngestRespond(j, status, error) ==
  ingest' = [ingest EXCEPT ![j].pc = "done", ![j].status = status,
                           ![j].error = error]

\* a credential check that looks at the merchant id only
BankCredentialsMissingNoToken(company) == company.pb_merchant_id = NULL

\* !company.pb_merchant_id || !company.pb_api_token_encrypted
BankCredentialsMissing(company) ==
  \/ company.pb_merchant_id = NULL
  \/ company.pb_api_token_encrypted = NULL

\* from the request to the call of fetchPrivatBankPayments
IngestStart(j, companyId) ==
  /\ ingest[j].pc = "idle"
  /\ \A h \in IngestCalls : h < j => ingest[h].pc # "idle"
  /\ IF companyId \notin Companies
       THEN ingest' = [ingest EXCEPT ![j].pc = "done",
                         ![j].companyId = companyId, ![j].status = 404,
                         ![j].error = "Company not found"]
     ELSE IF BankCredentialsMissing(companies[companyId])
       THEN ingest' = [ingest EXCEPT ![j].pc = "done",
                         ![j].companyId = companyId, ![j].status = 400,
                         ![j].error = "PrivatBank credentials not configured"]
     ELSE ingest' = [ingest EXCEPT ![j].pc = "fetch",
                         ![j].companyId = companyId]
  /\ UNCHANGED <<companies, payments, receipts, issue, offline>>

\* the end of one loop iteration; after the last one, the summary response
IngestAdvance(r) ==
  IF r.i + 1 > r.total_fetched
    THEN [r EXCEPT !.i = r.i + 1, !.pc = "done", !.status = 200]
    ELSE [r EXCEPT !.i = r.i + 1, !.pc = "select"]

\* fetchPrivatBankPayments resolves with a response of that length;
\* the content of record i is drawn when the loop reaches it, the handler
\* reading nothing of the response before that but its length
IngestFetchOk(j, length) ==
  /\ ingest[j].pc = "fetch"
  /\ ingest' = [ingest EXCEPT ![j] =
       IF length = 0
         THEN [@ EXCEPT !.pc = "done", !.status = 200]
         ELSE [@ EXCEPT !.pc = "select", !.total_fetched = length]]
  /\ UNCHANGED <<companies, payments, receipts, issue, offline>>

\* no try/catch around fetchPrivatBankPayments: its throw ends the request
\* in the outer catch
IngestFetchFailsUncaught(j) ==
  /\ ingest[j].pc = "fetch"
  /\ IngestRespond(j, 500, "Failed to fetch payments")
  /\ UNCHANGED <<companies, payments, receipts, issue, offline>>

\* fetchPrivatBankPayments throws: 502, nothing processed
IngestFetchFails(j) ==
  /\ ingest[j].pc = "fetch"
  /\ IngestRespond(j, 502, "Failed to fetch payments from PrivatBank")
  /\ UNCHANGED <<companies, payments, receipts, issue, offline>>

\* a loop without the per-record try/catch: the throw of the parser ends
\* the request in the outer catch
IngestSelectAborts(j, tx) ==
  /\ ingest[j].pc = "select"
  /\ LET r == [ingest[j] EXCEPT !.tx = tx]
         payment == parsePrivatBankTransaction(tx)
     IN ingest' = [ingest EXCEPT ![j] =
          IF ~payment.ok
            THEN [r EXCEPT !.pc = "done", !.status = 500,
                           !.error = "Failed to fetch payments"]
          ELSE IF existingPayment(payment.external_id, r.companyId) # {}
            THEN IngestAdvance([r EXCEPT !.duplicates = r.duplicates + 1])
          ELSE [r EXCEPT !.pc = "insert"]]
  /\ UNCHANGED <<companies, payments, receipts, issue, offline>>

\* one loop iteration up to its INSERT, tx being transactions[i]: parse the
\* record, then the duplicate SELECT by (external_id, company_id)
IngestSelect(j, tx) ==
  /\ ingest[j].pc = "select"
  /\ LET r == [ingest[j] EXCEPT !.tx = tx]
         payment == parsePrivatBankTransaction(tx)
     IN ingest' = [ingest EXCEPT ![j] =
          IF ~payment.ok
            THEN IngestAdvance([r EXCEPT !.errors = r.errors + 1])
          ELSE IF existingPayment(payment.external_id, r.companyId) # {}
            THEN IngestAdvance([r EXCEPT !.duplicates = r.duplicates + 1])
          ELSE [r EXCEPT !.pc = "insert"]]
  /\ UNCHANGED <<companies, payments, receipts, issue, offline>>

\* a per-record catch that drops the failure of the INSERT instead of
\* pushing it onto errors
IngestInsertSwallows(j) ==
  /\ ingest[j].pc = "insert"
  /\ LET r == ingest[j]
         payment == parsePrivatBankTransaction(r.tx)
     IN IF ExternalIdConflict(payment.external_id) # {}
          THEN /\ ingest' = [ingest EXCEPT ![j] = IngestAdvance(r)]
               /\ UNCHANGED payments
          ELSE /\ payments' = Append(payments,
                     NewPayment(Len(payments) + 1, r.companyId, payment))
               /\ ingest' = [ingest EXCEPT ![j] =
                     IngestAdvance([r EXCEPT !.newPayments = r.newPayments + 1])]
  /\ UNCHANGED <<companies, receipts, issue, offline>>

\* an INSERT ... ON CONFLICT (external_id) DO UPDATE: the row that holds the
\* external_id is written anew
IngestInsertUpserts(j) ==
  /\ ingest[j].pc = "insert"
  /\ LET r == ingest[j]
         payment == parsePrivatBankTransaction(r.tx)
         held == ExternalIdConflict(payment.external_id)
     IN IF held # {}
          THEN /\ payments' =
                    [ i \in 1..Len(payments) |->
                        IF i \in held
                          THEN NewPayment(payments[i].id, r.companyId, payment)
                          ELSE payments[i] ]
               /\ ingest' = [ingest EXCEPT ![j] =
                     IngestAdvance([r EXCEPT !.newPayments = r.newPayments + 1])]
          ELSE /\ payments' = Append(payments,
                     NewPayment(Len(payments) + 1, r.companyId, payment))
               /\ ingest' = [ingest EXCEPT ![j] =
                     IngestAdvance([r EXCEPT !.newPayments = r.newPayments + 1])]
  /\ UNCHANGED <<companies, receipts, issue, offline>>

\* INSERT INTO payments (..., receipt_issued, is_target) VALUES (..., false,
\* isTargetAccount(sender_account)); a row with the same external_id makes
\* the INSERT throw into the per-record catch
IngestInsert(j) ==
  /\ ingest[j].pc = "insert"
  /\ LET r == ingest[j]
         payment == parsePrivatBankTransaction(r.tx)
     IN IF ExternalIdConflict(payment.external_id) # {}
          THEN /\ ingest' = [ingest EXCEPT ![j] =
                     IngestAdvance([r EXCEPT !.errors = r.errors + 1])]
               /\ UNCHANGED payments
          ELSE /\ payments' = Append(payments,
                     NewPayment(Len(payments) + 1, r.companyId, payment))
               /\ ingest' = [ingest EXCEPT ![j] =
                     IngestAdvance([r EXCEPT !.newPayments = r.newPayments + 1])]
  /\ UNCHANGED <<companies, receipts, issue, offline>>

\* ------------------------------------------------------ account classifier
\* the three isTargetAccount definitions and the SQL CASE applied to the
\* account value under classification
Classify ==
  /\ probe.pc = "input"
  /\ probe' = [probe EXCEPT
       !.pc = "classified",
       !.isTargetAccount = isTargetAccount(probe.account),
       !.isTargetAccountNovaPoshta = isTargetAccountNovaPoshta(probe.account),
       !.isTargetAccount14to17 = isTargetAccount14to17(probe.account),
       !.updateIsTargetPatterns = updateIsTargetPatterns(probe.account),
       !.addIsTargetColumn = addIsTargetColumn(probe.account)]
  /\ UNCHANGED <<companies, payments, receipts, issue, ingest, initDb, aside>>

\* ----------------------------------------------------------------- scripts
\* the rows of the two sample INSERT INTO payments of init-db: is_target is
\* not among their columns
SamplePayments ==
  [ payments1 |->
      << [ external_id |-> "PB_TXN_001", amount |-> Decimal(1500, 0),
           receipt_issued |-> FALSE, sender_account |-> Account(SampleAccount) ],
         [ external_id |-> "PB_TXN_002", amount |-> Decimal(2800, 50),
           receipt_issued |-> TRUE, sender_account |-> Account(
             <<"U", "A", "9", "8", "7", "6", "5", "4", "3", "2", "1">>) ],
         [ external_id |-> "PB_TXN_003", amount |-> Decimal(750, 0),
           receipt_issued |-> FALSE, sender_account |-> Account(
             <<"U", "A", "5", "5", "5", "6", "6", "6", "7", "7", "7">>) ] >>,
    payments2 |->
      << [ external_id |-> "PB_TXN_004", amount |-> Decimal(3200, 0),
           receipt_issued |-> FALSE, sender_account |-> Account(
             <<"U", "A", "1", "1", "1", "2", "2", "2", "3", "3", "3">>) ],
         [ external_id |-> "PB_TXN_005", amount |-> Decimal(1100, 0),
           receipt_issued |-> FALSE, sender_account |-> Account(
             <<"U", "A", "4", "4", "4", "5", "5", "5", "6", "6", "6">>) ] >> ]

\* INSERT INTO payments (...) VALUES rows ON CONFLICT (external_id) DO
\* NOTHING: the rows that do not conflict are appended in order, is_target
\* taking the column's DEFAULT true
RECURSIVE InsertSamples(_, _, _)
InsertSamples(table, companyId, rows) ==
  IF rows = <<>> THEN table
  ELSE LET row == Head(rows)
           conflict == \E i \in 1..Len(table) :
                         table[i].external_id = row.external_id
           stored == IF conflict THEN table
                     ELSE Append(table,
                            [ id             |-> Len(table) + 1,
                              company_id     |-> companyId,
                              external_id    |-> row.external_id,
                              amount         |-> row.amount,
                              sender_account |-> row.sender_account,
                              receipt_issued |-> row.receipt_issued,
                              receipt_id     |-> NULL,
                              is_target      |-> TRUE ])
       IN InsertSamples(stored, companyId, Tail(rows))

\* SELECT id FROM companies ORDER BY id LIMIT 2
SampleCompany ==
  [ payments1 |-> CHOOSE c \in Companies : \A d \in Companies : c <= d,
    payments2 |-> CHOOSE c \in Companies :
                    Cardinality({d \in Companies : d < c}) = 1 ]

\* a run of init-db starts: the tables and the companies exist already
InitDbStart ==
  /\ initDb = "idle"
  /\ initDb' = "payments1"
  /\ UNCHANGED <<companies, payments, receipts, issue, ingest, probe, aside>>

\* one of the two sample INSERT INTO payments
InitDbSamplePayments(statement) ==
  /\ initDb = statement
  /\ payments' = InsertSamples(payments, SampleCompany[statement],
                               SamplePayments[statement])
  /\ initDb' = IF statement = "payments1" THEN "payments2" ELSE "receipt"
  /\ UNCHANGED <<companies, receipts, issue, ingest, probe, aside>>

\* the sample INSERT INTO receipts names a column fiscal_number that the
\* receipts table does not have: the statement fails and the run ends
InitDbSampleReceipt ==
  /\ initDb = "receipt"
  /\ initDb' = "idle"
  /\ UNCHANGED <<companies, payments, receipts, issue, ingest, probe, aside>>

\* the maintenance script: UPDATE payments SET is_target = CASE ... END
UpdateIsTargetPatterns ==
  /\ payments' = [ i \in 1..Len(payments) |->
                     [payments[i] EXCEPT !.is_target =
                        updateIsTargetPatterns(payments[i].sender_account)] ]
  /\ payments' # payments
  /\ UNCHANGED <<companies, receipts, issue, ingest, offline>>

\* ------------------------------------------------------- /api/companies
\* the company an answer carries: the three secrets decrypted
CompanyView(id) ==
  LET company == companies[id]
  IN [ id |-> id, name |-> company.name, tax_id |-> company.tax_id,
       pb_merchant_id |-> company.pb_merchant_id,
       pb_api_token |-> safeDecrypt(company.pb_api_token_encrypted),
       checkbox_license_key |->
         safeDecrypt(company.checkbox_license_key_encrypted),
       checkbox_cashier_pin |->
         safeDecrypt(company.checkbox_cashier_pin_encrypted) ]

\* GET /api/companies: every company (both have the same name: in id order)
GetCompanies ==
  /\ companyRoute' =
       [ status |-> 200, companies |-> [ id \in Companies |-> CompanyView(id) ] ]
  /\ companyRoute' # companyRoute
  /\ UNCHANGED <<companies, payments, receipts, issue, ingest, probe, initDb,
                 conversion, list>>

\* GET /api/companies/[id]
GetCompany(id) ==
  /\ companyRoute' =
       IF id \in Companies
         THEN [ status |-> 200, companies |-> <<CompanyView(id)>> ]
         ELSE [ status |-> 404, companies |-> <<>> ]
  /\ companyRoute' # companyRoute
  /\ UNCHANGED <<companies, payments, receipts, issue, ingest, probe, initDb,
                 conversion, list>>

\* --------------------------------------------------------- uahToKopiyky
\* route.ts:88 applied to one amount
Convert ==
  /\ conversion.pc = "input"
  /\ conversion' =
       [conversion EXCEPT
          !.pc = "converted",
          !.kopiyky = uahToKopiyky(parseFloat(conversion.amount,
                                              conversion.error))]
  /\ UNCHANGED <<companies, payments, receipts, issue, ingest, probe, initDb,
                 companyRoute, list>>

\* ------------------------------------------------------- PaymentList.tsx
\* the issue button of a row is rendered and not disabled
ButtonEnabled(id) ==
  /\ list.page = "list"
  /\ ~list.loading
  /\ ~list.payments[id].receipt_issued
  /\ ~(list.issuingReceipt = id \/ ~list.payments[id].is_target)

\* handleIssueReceipt up to its first await: a click on the button of a row
HandleIssueReceipt(c, paymentId) ==
  /\ list.calls[c].pc = "idle"
  /\ \A b \in Clicks : b < c => list.calls[b].pc # "idle"
  /\ ButtonEnabled(paymentId)
  /\ list' =
       IF ~list.token
         THEN [list EXCEPT !.page = "login", !.issuingReceipt = NoId,
                           !.calls[c] = [ pc |-> "done",
                                          paymentId |-> paymentId,
                                          ok |-> FALSE ]]
         ELSE [list EXCEPT !.issuingReceipt = paymentId,
                           !.calls[c] = [ pc |-> "fetch",
                                          paymentId |-> paymentId,
                                          ok |-> FALSE ]]
  /\ UNCHANGED <<companies, payments, receipts, issue, ingest, probe, initDb,
                 companyRoute, conversion>>

\* the response is ok: fetchPayments is called and sets loading
IssueResponseOk(c) ==
  /\ list.calls[c].pc = "fetch"
  /\ list' = [list EXCEPT !.loading = TRUE,
                          !.calls[c].pc = "refresh", !.calls[c].ok = TRUE]
  /\ UNCHANGED <<companies, payments, receipts, issue, ingest, probe, initDb,
                 companyRoute, conversion>>

\* the response is not ok, or fetch throws: catch, then finally
IssueResponseFails(c) ==
  /\ list.calls[c].pc = "fetch"
  /\ list' = [list EXCEPT !.issuingReceipt = NoId, !.calls[c].pc = "done"]
  /\ UNCHANGED <<companies, payments, receipts, issue, ingest, probe, initDb,
                 companyRoute, conversion>>

\* fetchPayments loads the rows: a payment is issued on the server once a
\* request for it was answered ok; then the finally of handleIssueReceipt
FetchPaymentsOk(c) ==
  /\ list.calls[c].pc = "refresh"
  /\ list' =
       [list EXCEPT
          !.payments =
             [ id \in DOMAIN list.payments |->
                 [list.payments[id] EXCEPT !.receipt_issued =
                    \E b \in Clicks : /\ list.calls[b].paymentId = id
                                      /\ list.calls[b].ok] ],
          !.loading = FALSE,
          !.issuingReceipt = NoId,
          !.calls[c].pc = "done"]
  /\ UNCHANGED <<companies, payments, receipts, issue, ingest, probe, initDb,
                 companyRoute, conversion>>

\* fetchPayments fails: the rows stay; then the finally of handleIssueReceipt
FetchPaymentsFails(c) ==
  /\ list.calls[c].pc = "refresh"
  /\ list' = [list EXCEPT !.loading = FALSE, !.issuingReceipt = NoId,
                          !.calls[c].pc = "done"]
  /\ UNCHANGED <<companies, payments, receipts, issue, ingest, probe, initDb,
                 companyRoute, conversion>>

\* -------------------------------------------------------- specification
\* paymentId of a request: every stored id and one that is not stored
PaymentIds == 1..(Len(payments) + 1)

\* the issuance requests and the company edits that set their credentials
NextIssue ==
  \/ \E k \in IssueCalls, paymentId \in PaymentIds : IssueSelect(k, paymentId)
  \/ \E k \in IssueCalls, paymentId \in PaymentIds :
       IssueDecryptFails(k, paymentId)
  \/ \E k \in IssueCalls : IssueCheckboxOk(k)
  \/ \E k \in IssueCalls : IssueCheckboxFails(k)
  \/ \E k \in IssueCalls : IssueInsertReceipt(k)
  \/ \E k \in IssueCalls : IssueInsertFails(k)
  \/ \E k \in IssueCalls : IssueUpdatePayment(k)
  \/ \E k \in IssueCalls : IssueUpdateFails(k)
  \/ \E c \in Companies, field \in CheckboxSecretFields,
        value \in {NULL, "enc"} : UpdateCompany(c, field, value)

\* one step of ingestion request j
IngestStep(j) ==
  \/ \E companyId \in Companies \cup {NoSuchCompany} : IngestStart(j, companyId)
  \/ \E length \in 0..MaxTx : IngestFetchOk(j, length)
  \/ IngestFetchFails(j)
  \/ \E tx \in BankTransactions : IngestSelect(j, tx)
  \/ IngestInsert(j)

\* the ingestion requests, interleaved at their awaits
NextIngest == \E j \in IngestCalls : IngestStep(j)

\* no other ingestion request is in flight
IngestAlone(j) ==
  \A h \in IngestCalls \ {j} : ingest[h].pc \in {"idle", "done"}

\* the ingestion requests one after the other: a request runs only while
\* no other is in flight
NextIngestSeq ==
  \/ \E j \in IngestCalls, companyId \in Companies \cup {NoSuchCompany} :
       IngestAlone(j) /\ IngestStart(j, companyId)
  \/ \E j \in IngestCalls, length \in 0..MaxTx :
       IngestAlone(j) /\ IngestFetchOk(j, length)
  \/ \E j \in IngestCalls : IngestAlone(j) /\ IngestFetchFails(j)
  \/ \E j \in IngestCalls, tx \in BankTransactions :
       IngestAlone(j) /\ IngestSelect(j, tx)
  \/ \E j \in IngestCalls : IngestAlone(j) /\ IngestInsert(j)

Next == NextIssue \/ NextIngest

\* the whole system from an empty store
Spec == Init /\ [][Next]_vars

\* ingestion alone, concurrent and sequential
SpecIngest == Init /\ [][NextIngest]_vars
SpecIngestSeq == Init /\ [][NextIngestSeq]_vars

\* issuance over a store that ingestion has filled
SpecIssue == InitIssue /\ [][NextIssue]_vars

\* issuance for companies of which any fiscal credential may be absent
InitFiscalCredentials ==
  /\ companies \in CompanyTables(FiscalCredentialFields)
  /\ payments \in IngestedTables
  /\ receipts = <<>>
  /\ issue = [k \in IssueCalls |-> IdleIssue]
  /\ ingest = [j \in IngestCalls |-> IdleIngest]
  /\ probe = IdleProbe
  /\ initDb = "idle"
  /\ InitAside

NextFiscalCredentials ==
  \/ \E k \in IssueCalls, paymentId \in PaymentIds : IssueSelect(k, paymentId)
  \/ \E k \in IssueCalls, paymentId \in PaymentIds :
       IssueDecryptFails(k, paymentId)
  \/ \E k \in IssueCalls : IssueCheckboxOk(k)
  \/ \E k \in IssueCalls : IssueCheckboxFails(k)
  \/ \E k \in IssueCalls : IssueInsertReceipt(k)
  \/ \E k \in IssueCalls : IssueInsertFails(k)
  \/ \E k \in IssueCalls : IssueUpdatePayment(k)
  \/ \E k \in IssueCalls : IssueUpdateFails(k)

SpecFiscalCredentials ==
  InitFiscalCredentials /\ [][NextFiscalCredentials]_vars

\* ingestion for companies of which any bank credential may be absent
InitBankCredentials ==
  /\ companies \in CompanyTables(BankCredentialFields)
  /\ payments = <<>>
  /\ receipts = <<>>
  /\ issue = [k \in IssueCalls |-> IdleIssue]
  /\ ingest = [j \in IngestCalls |-> IdleIngest]
  /\ probe = IdleProbe
  /\ initDb = "idle"
  /\ InitAside

SpecBankCredentials == InitBankCredentials /\ [][NextIngestSeq]_vars

\* the response field of each encrypted column of a company
SecretColumns ==
  [ pb_api_token         |-> "pb_api_token_encrypted",
    checkbox_license_key |-> "checkbox_license_key_encrypted",
    checkbox_cashier_pin |-> "checkbox_cashier_pin_encrypted" ]

\* the company routes over companies of which any secret may be absent
InitCompanies ==
  /\ companies \in
       CompanyTables({ SecretColumns[f] : f \in DOMAIN SecretColumns })
  /\ payments = <<>>
  /\ receipts = <<>>
  /\ issue = [k \in IssueCalls |-> IdleIssue]
  /\ ingest = [j \in IngestCalls |-> IdleIngest]
  /\ probe = IdleProbe
  /\ initDb = "idle"
  /\ InitAside

NextCompanies ==
  \/ GetCompanies
  \/ \E id \in Companies \cup {NoSuchCompany} : GetCompany(id)
  \/ \E c \in Companies, f \in DOMAIN SecretColumns, value \in {NULL, "enc"} :
       UpdateCompany(c, SecretColumns[f], value)

SpecCompanies == InitCompanies /\ [][NextCompanies]_vars

\* the amounts converted: every amount of at most MaxUah hryvnias with two
\* decimals, and 1500.00
Amounts ==
  { Decimal(uah, kop) : uah \in (0..MaxUah) \cup {1500}, kop \in 0..99 }

\* the conversion applied to one amount
InitConvert ==
  /\ companies = CompanyRows
  /\ payments = <<>>
  /\ receipts = <<>>
  /\ issue = [k \in IssueCalls |-> IdleIssue]
  /\ ingest = [j \in IngestCalls |-> IdleIngest]
  /\ probe = IdleProbe
  /\ initDb = "idle"
  /\ companyRoute = IdleCompanyRoute
  /\ conversion \in { [IdleConversion EXCEPT !.pc = "input", !.amount = a,
                                             !.error = e] :
                        a \in Amounts, e \in FloatErrors }
  /\ list = IdleList

NextConvert == Convert

SpecConvert == InitConvert /\ [][NextConvert]_vars

\* the store after receipts were issued for the payments in issued: their
\* flag is set and each has its receipts row
IssuedStore(table, issued) ==
  LET ids == SelectSeq([ i \in 1..Len(table) |-> i ],
                       LAMBDA i : i \in issued)
  IN [ payments |->
         [ i \in 1..Len(table) |->
             [table[i] EXCEPT !.receipt_issued = i \in issued] ],
       receipts |->
         [ n \in 1..Len(ids) |->
             [ id                  |-> n,
               company_id          |-> table[ids[n]].company_id,
               payment_id          |-> table[ids[n]].id,
               checkbox_receipt_id |-> n,
               amount              |-> table[ids[n]].amount ] ] ]

IssuedStores ==
  UNION { { IssuedStore(table, issued) : issued \in SUBSET (1..Len(table)) } :
            table \in IngestedTables }

\* ingestion over a store in which receipts have been issued
InitReingest ==
  /\ companies = CompanyRows
  /\ \E store \in IssuedStores :
       /\ payments = store.payments
       /\ receipts = store.receipts
  /\ issue = [k \in IssueCalls |-> IdleIssue]
  /\ ingest = [j \in IngestCalls |-> IdleIngest]
  /\ probe = IdleProbe
  /\ initDb = "idle"
  /\ InitAside

SpecReingest == InitReingest /\ [][NextIngestSeq]_vars

\* the payment list of the browser, with or without an auth token
InitList ==
  /\ companies = CompanyRows
  /\ payments = <<>>
  /\ receipts = <<>>
  /\ issue = [k \in IssueCalls |-> IdleIssue]
  /\ ingest = [j \in IngestCalls |-> IdleIngest]
  /\ probe = IdleProbe
  /\ initDb = "idle"
  /\ companyRoute = IdleCompanyRoute
  /\ conversion = IdleConversion
  /\ list \in { [IdleList EXCEPT !.token = t] : t \in BOOLEAN }

NextList ==
  \/ \E c \in Clicks, paymentId \in DOMAIN ListRows :
       HandleIssueReceipt(c, paymentId)
  \/ \E c \in Clicks : IssueResponseOk(c)
  \/ \E c \in Clicks : IssueResponseFails(c)
  \/ \E c \in Clicks : FetchPaymentsOk(c)
  \/ \E c \in Clicks : FetchPaymentsFails(c)

SpecList == InitList /\ [][NextList]_vars

\* the classifiers applied to one account value
InitClassify ==
  /\ companies = CompanyRows
  /\ payments = <<>>
  /\ receipts = <<>>
  /\ issue = [k \in IssueCalls |-> IdleIssue]
  /\ ingest = [j \in IngestCalls |-> IdleIngest]
  /\ probe \in { [IdleProbe EXCEPT !.pc = "input", !.account = a] :
                   a \in Accounts }
  /\ initDb = "idle"
  /\ InitAside

NextClassify == Classify

SpecClassify == InitClassify /\ [][NextClassify]_vars

\* the stored is_target: ingestion requests one after the other, over all
\* the transactions, with the two scripts run at any time
NextTarget ==
  \/ \E j \in IngestCalls, companyId \in Companies :
       IngestAlone(j) /\ IngestStart(j, companyId)
  \/ \E j \in IngestCalls, length \in 1..MaxTx :
       IngestAlone(j) /\ IngestFetchOk(j, length)
  \/ \E j \in IngestCalls,
        tx \in BankTransactions \cup CourierTransactions :
       IngestAlone(j) /\ IngestSelect(j, tx)
  \/ \E j \in IngestCalls : IngestAlone(j) /\ IngestInsert(j)
  \/ InitDbStart
  \/ \E statement \in {"payments1", "payments2"} :
       InitDbSamplePayments(statement)
  \/ InitDbSampleReceipt
  \/ UpdateIsTargetPatterns

SpecTarget == Init /\ [][NextTarget]_vars

\* ------------------------------------------------------------ properties
\* the rows of a payments table with company c and external id e
RowsOf(table, c, e) ==
  { i \in 1..Len(table) :
      table[i].company_id = c /\ table[i].external_id = e }

\* the rows of a receipts table that reference a payment
ReceiptsOf(table, paymentId) ==
  { i \in 1..Len(table) : table[i].payment_id = paymentId }

\* the stored payment with an id
PaymentById(table, paymentId) ==
  table[CHOOSE i \in 1..Len(table) : table[i].id = paymentId]

IsStored(table, paymentId) ==
  \E i \in 1..Len(table) : table[i].id = paymentId

\* C1: two issue requests on the same payment that both ran to their end
\* without an upstream or store failure leave exactly one receipts row for
\* it and the payment flagged, however they interleaved.
C1_ConcurrentIssueOneReceipt ==
  \A k1, k2 \in IssueCalls :
    ( /\ k1 # k2
      /\ issue[k1].pc = "done" /\ issue[k2].pc = "done"
      /\ issue[k1].paymentId = issue[k2].paymentId
      /\ IsStored(payments, issue[k1].paymentId)
      /\ \A k \in {k1, k2} :
           \/ issue[k].status = 200
           \/ issue[k].error = "Receipt already issued" )
    => /\ Cardinality(ReceiptsOf(receipts, issue[k1].paymentId)) = 1
       /\ PaymentById(payments, issue[k1].paymentId).receipt_issued

\* C2: a request for a payment whose receipt_issued is true ends at once
\* with 400 'Receipt already issued', submits nothing to the fiscal API and
\* leaves receipts and payments as they were.
C2_AlreadyIssuedFailsFast ==
  [][ \A k \in IssueCalls :
        ( /\ issue[k].pc = "idle" /\ issue'[k].pc # "idle"
          /\ IsStored(payments, issue'[k].paymentId)
          /\ PaymentById(payments, issue'[k].paymentId).receipt_issued )
        => /\ issue'[k].pc = "done"
           /\ issue'[k].status = 400
           /\ issue'[k].error = "Receipt already issued"
           /\ ~issue'[k].submitted
           /\ issue'[k].receiptId = NoId
           /\ receipts' = receipts
           /\ payments' = payments ]_vars

\* a request was turned away by the guard although another one had issued
C2_Witness ==
  \E k \in IssueCalls :
    /\ issue[k].pc = "done"
    /\ issue[k].error = "Receipt already issued"
    /\ ReceiptsOf(receipts, issue[k].paymentId) # {}

\* C3: in every state, every receipts row belongs to a payment whose
\* receipt_issued is true (the INSERT and the UPDATE are one atomic write).
C3_NoReceiptForUnflaggedPayment ==
  \A r \in 1..Len(receipts) :
    /\ IsStored(payments, receipts[r].payment_id)
    /\ PaymentById(payments, receipts[r].payment_id).receipt_issued

\* C4: in every state, a payment with receipt_issued = true has a non-null
\* receipt_id naming a receipts row whose payment_id is that payment's id.
C4_IssuedPaymentReferencesReceipt ==
  \A i \in 1..Len(payments) :
    payments[i].receipt_issued =>
      /\ payments[i].receipt_id # NULL
      /\ \E r \in 1..Len(receipts) :
           /\ receipts[r].id = payments[i].receipt_id
           /\ receipts[r].payment_id = payments[i].id

\* C5: whenever an ingestion request has finished a well-formed record,
\* exactly one payment with its (company_id, external_id) is stored; and if
\* one was stored before, the record is counted in duplicates and nothing
\* is written.
C5_ReingestIsNoOp ==
  [][ \A j \in IngestCalls :
        ( /\ ingest[j].pc \in {"select", "insert"}
          /\ ingest'[j].i > ingest[j].i
          /\ ingest'[j].tx.wellFormed )
        => /\ Cardinality(RowsOf(payments', ingest'[j].companyId,
                                 ingest'[j].tx.ID)) = 1
           /\ RowsOf(payments, ingest'[j].companyId, ingest'[j].tx.ID) # {}
                => /\ ingest'[j].duplicates = ingest[j].duplicates + 1
                   /\ payments' = payments ]_vars

\* C6: an INSERT of a record whose (company_id, external_id) is not stored
\* creates the payment, whatever other tenants have stored.
C6_ExternalIdUniquePerTenant ==
  [][ \A j \in IngestCalls :
        ( /\ ingest[j].pc = "insert"
          /\ RowsOf(payments, ingest[j].companyId, ingest[j].tx.ID) = {} )
        => /\ RowsOf(payments', ingest[j].companyId, ingest[j].tx.ID) # {}
           /\ ingest'[j].newPayments = ingest[j].newPayments + 1 ]_vars

\* C7: in every state reached by concurrent ingestion requests, no two
\* payments rows have the same (company_id, external_id).
C7_NoDoubleInsert ==
  \A a, b \in 1..Len(payments) :
    a # b => ~ ( /\ payments[a].company_id = payments[b].company_id
                 /\ payments[a].external_id = payments[b].external_id )

\* a request past its duplicate SELECT, about to INSERT a record that a
\* concurrent request of the same tenant has stored meanwhile
C7_Witness ==
  \E j \in IngestCalls :
    /\ ingest[j].pc = "insert"
    /\ RowsOf(payments, ingest[j].companyId, ingest[j].tx.ID) # {}

\* C8: a request whose fiscal API call fails ends with 502 and the upstream
\* failure, and writes nothing: payments and receipts are unchanged, and no
\* receipts row ever comes from a request that ended with 502.
C8_FiscalFailureMutatesNothing ==
  [][ \A k \in IssueCalls :
        /\ ( issue[k].pc = "checkbox" /\ issue'[k].pc = "done" )
             => /\ issue'[k].status = 502
                /\ issue'[k].error = "Failed to create receipt in Checkbox"
                /\ payments' = payments
                /\ receipts' = receipts
        /\ issue'[k].status = 502
             => /\ issue'[k].receiptId = NoId
                /\ \A r \in 1..Len(receipts') :
                     receipts'[r].checkbox_receipt_id # k ]_vars

\* a request ended with 502 and its payment is still pending, without receipt
C8_Witness ==
  \E k \in IssueCalls :
    /\ issue[k].status = 502
    /\ ~PaymentById(payments, issue[k].paymentId).receipt_issued
    /\ ReceiptsOf(receipts, issue[k].paymentId) = {}

\* C9: a request is submitted to the fiscal API only while no receipts row
\* exists for its payment, and receipt_issued never goes from true to false.
C9_NoTransitionOutOfIssued ==
  [][ /\ \A k \in IssueCalls :
           ( ~issue[k].submitted /\ issue'[k].submitted )
             => ReceiptsOf(receipts, issue'[k].paymentId) = {}
      /\ \A i \in 1..Len(payments) :
           payments[i].receipt_issued
             => /\ i <= Len(payments')
                /\ payments'[i].receipt_issued ]_vars

\* C10: a request that ends with the fiscal failure or with missing
\* credentials leaves payments and receipts as they were, and a request
\* whose fiscal API call succeeded and whose two writes went through ends
\* with 200, its receipts row stored and its payment flagged.
C10_FailedIsNotTerminal ==
  [][ \A k \in IssueCalls :
        /\ ( /\ issue[k].pc # "done" /\ issue'[k].pc = "done"
             /\ issue'[k].error \in
                  { "Failed to create receipt in Checkbox",
                    "Checkbox credentials not configured" } )
             => /\ payments' = payments
                /\ receipts' = receipts
        /\ ( /\ issue'[k].pc = "done"
             /\ issue'[k].checkboxReceipt # NoId
             /\ issue'[k].status # 500 )
             => /\ issue'[k].status = 200
                /\ \E r \in ReceiptsOf(receipts', issue'[k].paymentId) :
                     receipts'[r].checkbox_receipt_id = k
                /\ PaymentById(payments', issue'[k].paymentId).receipt_issued
    ]_vars

\* an earlier request on a payment failed (fiscal failure or missing
\* credentials) and a later one on the same payment issued the receipt
C10_Witness ==
  \E k1, k2 \in IssueCalls :
    /\ k1 < k2
    /\ issue[k1].paymentId = issue[k2].paymentId
    /\ issue[k1].error \in { "Failed to create receipt in Checkbox",
                             "Checkbox credentials not configured" }
    /\ issue[k2].pc = "done" /\ issue[k2].status = 200
    /\ PaymentById(payments, issue[k2].paymentId).receipt_issued

\* C11: a request that returned its summary accounts for every fetched
\* transaction exactly once: total_fetched = new_payments + duplicates +
\* errors; and while the loop runs, the records already passed are exactly
\* the ones counted.
C11_EveryTransactionAccounted ==
  \A j \in IngestCalls :
    LET r == ingest[j]
        counted == r.newPayments + r.duplicates + r.errors
    IN /\ (r.pc = "done" /\ r.status = 200) => r.total_fetched = counted
       /\ r.pc \in {"select", "insert"} => counted = r.i - 1

\* a summary that counts a stored payment and then a well-formed record
\* that failed
C11_Witness ==
  \E j \in IngestCalls :
    /\ ingest[j].pc = "done" /\ ingest[j].status = 200
    /\ ingest[j].newPayments >= 1 /\ ingest[j].errors >= 1
    /\ ingest[j].tx.wellFormed
    /\ payments[Len(payments)].external_id # ingest[j].tx.ID

\* C12: a record that fails (malformed, or its INSERT rejected) is counted
\* in errors and nothing else happens: the stored payments stay, the other
\* counters stay, and the loop goes on to the next record, the request
\* ending with its 200 summary only after the last record.
C12_RecordFailureDoesNotAbort ==
  [][ /\ \A j \in IngestCalls :
           LET r == ingest[j]
               moved == ingest'[j].pc # r.pc \/ ingest'[j].i # r.i
               malformed == /\ r.pc = "select" /\ moved
                            /\ ~ingest'[j].tx.wellFormed
               rejected == /\ r.pc = "insert" /\ moved
                           /\ Len(payments') = Len(payments)
           IN /\ ( malformed \/ rejected )
                  => /\ payments' = payments
                     /\ ingest'[j].errors = r.errors + 1
                     /\ ingest'[j].newPayments = r.newPayments
                     /\ ingest'[j].duplicates = r.duplicates
                     /\ ingest'[j].i = r.i + 1
                     /\ IF ingest'[j].i <= r.total_fetched
                          THEN ingest'[j].pc = "select"
                          ELSE ingest'[j].pc = "done"
                               /\ ingest'[j].status = 200
              /\ ( ingest'[j].pc = "done" /\ r.pc \in {"select", "insert"} )
                  => /\ ingest'[j].status = 200
                     /\ ingest'[j].i = r.total_fetched + 1
      /\ \A n \in 1..Len(payments) :
           n <= Len(payments') /\ payments'[n] = payments[n] ]_vars

\* the first record of a response failed and the second one was stored
C12_Witness ==
  \E j \in IngestCalls :
    /\ ingest[j].pc = "done" /\ ingest[j].status = 200
    /\ ingest[j].errors = 1 /\ ingest[j].newPayments = 1
    /\ ingest[j].tx.wellFormed
    /\ Len(payments) = 1
    /\ payments[1].external_id = ingest[j].tx.ID
    /\ payments[1].company_id = ingest[j].companyId

\* C13: when the bank call fails, the request ends with 502 and the single
\* error 'Failed to fetch payments from PrivatBank', no record is processed
\* or counted, and the payments table is unchanged.
C13_BankFailureAbortsIngestion ==
  [][ \A j \in IngestCalls :
        /\ ( /\ ingest[j].pc = "fetch" /\ ingest'[j].pc = "done"
             /\ ingest'[j].status # 200 )
             => /\ ingest'[j].status = 502
                /\ ingest'[j].error =
                     "Failed to fetch payments from PrivatBank"
                /\ payments' = payments
        /\ ingest'[j].status = 502
             => /\ ingest'[j].pc = "done"
                /\ ingest'[j].i = 1
                /\ ingest'[j].newPayments = 0
                /\ ingest'[j].duplicates = 0
                /\ ingest'[j].errors = 0 ]_vars

\* a request ended with the upstream error while payments of an earlier
\* request are stored
C13_Witness ==
  \E j \in IngestCalls :
    /\ ingest[j].status = 502
    /\ ingest[j].error = "Failed to fetch payments from PrivatBank"
    /\ Len(payments) > 0

\* C14: a payment whose stored is_target is false is never submitted to the
\* fiscal API, never gets a receipts row and never gets receipt_issued = true,
\* whatever requests are sent to POST /api/receipts/create.
C14_NonTargetNeverIssued ==
  /\ \A i \in 1..Len(payments) :
       ~payments[i].is_target
         => /\ ~payments[i].receipt_issued
            /\ ReceiptsOf(receipts, payments[i].id) = {}
  /\ \A k \in IssueCalls :
       issue[k].submitted => issue[k].payment.is_target

\* C19: the line-item name of every request submitted to the fiscal API is
\* the title that the tax_id of the payment's company selects: the fixed
\* title of its lookup entry, or the default title when it has none.
C19_TitleSelectedByTaxId ==
  \A k \in IssueCalls :
    issue[k].submitted
      => issue[k].receiptData.name =
           getProductTitle(companies[issue[k].payment.company_id],
                           issue[k].payment)

\* an amount of the DECIMAL(10, 2) column times 100
AmountTimes100(amount) == amount.uah * 100 + amount.kop

\* C20: every receipts row has the amount of its payment, and the request
\* it came from carried that amount in kopiyky both as the price of its
\* single line item and as the value of its single payment leg.
C20_ReceiptAmountIsPaymentAmount ==
  /\ \A r \in 1..Len(receipts) :
       /\ IsStored(payments, receipts[r].payment_id)
       /\ receipts[r].amount =
            PaymentById(payments, receipts[r].payment_id).amount
       /\ \E k \in IssueCalls :
            /\ receipts[r].checkbox_receipt_id = issue[k].checkboxReceipt
            /\ issue[k].paymentId = receipts[r].payment_id
            /\ issue[k].receiptData.price = AmountTimes100(receipts[r].amount)
            /\ issue[k].receiptData.value = AmountTimes100(receipts[r].amount)
  /\ \A k \in IssueCalls :
       issue[k].submitted
         => /\ issue[k].receiptData.price = issue[k].receiptData.value
            /\ issue[k].receiptData.price =
                 AmountTimes100(PaymentById(payments, issue[k].paymentId).amount)

\* a receipt of 750.50 is stored, sent to the fiscal API as 75050 kopiyky
C20_Witness ==
  \E r \in 1..Len(receipts), k \in IssueCalls :
    /\ receipts[r].checkbox_receipt_id = issue[k].checkboxReceipt
    /\ receipts[r].amount = Decimal(750, 50)
    /\ issue[k].receiptData.price = 75050
    /\ issue[k].status = 200

\* C15: every isTargetAccount definition returns false for an account that
\* is null, empty, or shorter than 19 characters.
C15_ShortAccountIsNonTarget ==
  ( /\ probe.pc = "classified"
    /\ probe.account.null \/ Len(probe.account.chars) < 19 )
  => /\ ~probe.isTargetAccount
     /\ ~probe.isTargetAccountNovaPoshta
     /\ ~probe.isTargetAccount14to17

\* C16: a stored payment whose sender_account is the courier account has
\* is_target = false, after its ingestion and after any run of the
\* maintenance script.
C16_CourierAccountIsNonTarget ==
  \A i \in 1..Len(payments) :
    payments[i].sender_account = Account(NOVA_POSHTA_ACCOUNT)
      => ~payments[i].is_target

\* C17: for an account of at least 19 characters that is not the courier
\* account, every isTargetAccount definition returns false exactly when its
\* characters 15..18 (0-indexed) are one of '2600', '2902', '2909', '2920'.
C17_PatternAt15to18Decides ==
  ( /\ probe.pc = "classified"
    /\ ~probe.account.null
    /\ Len(probe.account.chars) >= 19
    /\ probe.account.chars # NOVA_POSHTA_ACCOUNT )
  => LET window == [ n \in 1..4 |-> probe.account.chars[15 + n] ]
         expected == window \notin NON_TARGET_PATTERNS
     IN /\ probe.isTargetAccount = expected
        /\ probe.isTargetAccountNovaPoshta = expected
        /\ probe.isTargetAccount14to17 = expected

\* C18: every stored payment's is_target is what the ingestion classifier
\* returns for its sender_account, and no step changes the is_target of a
\* stored payment.
C18_IsTargetSetOnceAtIngestion ==
  [][ /\ \A i \in 1..Len(payments') :
           payments'[i].is_target =
             isTargetAccount(payments'[i].sender_account)
      /\ \A i \in 1..Len(payments) :
           /\ i <= Len(payments')
           /\ payments'[i].is_target = payments[i].is_target ]_vars

\* C21: a request for a stored, not yet issued payment whose company lacks
\* the license key, the cashier login or the cashier PIN ends at once with
\* 400 'Checkbox credentials not configured': nothing is decrypted or
\* submitted, and payments and receipts are unchanged.
C21_FiscalCredentialsMissing ==
  [][ \A k \in IssueCalls :
        ( /\ issue[k].pc = "idle" /\ issue'[k].pc # "idle"
          /\ IsStored(payments, issue'[k].paymentId)
          /\ LET p == PaymentById(payments, issue'[k].paymentId)
             IN /\ ~p.receipt_issued
                /\ \E f \in FiscalCredentialFields :
                     companies[p.company_id][f] = NULL )
        => /\ issue'[k].pc = "done"
           /\ issue'[k].status = 400
           /\ issue'[k].error = "Checkbox credentials not configured"
           /\ ~issue'[k].submitted
           /\ issue'[k].receiptData = NoReceiptData
           /\ payments' = payments
           /\ receipts' = receipts ]_vars

\* a request was refused for a company that has the license key and the
\* PIN but no cashier login
C21_Witness ==
  \E k \in IssueCalls :
    /\ issue[k].pc = "done"
    /\ issue[k].error = "Checkbox credentials not configured"
    /\ LET c == companies[issue[k].payment.company_id]
       IN /\ c.checkbox_cashier_login = NULL
          /\ c.checkbox_license_key_encrypted # NULL
          /\ c.checkbox_cashier_pin_encrypted # NULL

\* C22: an ingestion request for a company without merchant id or without
\* encrypted token ends at once with 400 'PrivatBank credentials not
\* configured': the bank is not called, no record is processed and no
\* payment is stored.
C22_BankCredentialsMissing ==
  [][ \A j \in IngestCalls :
        ( /\ ingest[j].pc = "idle" /\ ingest'[j].pc # "idle"
          /\ ingest'[j].companyId \in Companies
          /\ \E f \in BankCredentialFields :
               companies[ingest'[j].companyId][f] = NULL )
        => /\ ingest'[j].pc = "done"
           /\ ingest'[j].status = 400
           /\ ingest'[j].error = "PrivatBank credentials not configured"
           /\ ingest'[j].total_fetched = 0
           /\ ingest'[j].newPayments = 0
           /\ payments' = payments ]_vars

\* a request was refused for a company that has the merchant id but no
\* token, while a payment of the other company is stored
C22_Witness ==
  \E j \in IngestCalls :
    /\ ingest[j].pc = "done"
    /\ ingest[j].error = "PrivatBank credentials not configured"
    /\ companies[ingest[j].companyId].pb_merchant_id # NULL
    /\ companies[ingest[j].companyId].pb_api_token_encrypted = NULL
    /\ Len(payments) > 0

\* C23: no response of an operation carries the plaintext of a stored
\* secret: the decrypted bank token, license key and cashier PIN go to the
\* bank fetch and to the fiscal submission only.
C23_NoSecretInResponse ==
  \A i \in DOMAIN companyRoute.companies :
    \A f \in DOMAIN SecretColumns :
      LET row == companyRoute.companies[i]
          stored == companies[row.id][SecretColumns[f]]
      IN stored # NULL => row[f] # decrypt(stored)

\* C24: for every amount with two decimals the conversion returns exactly
\* amount x 100, and dividing the result by 100 gives the amount back
\* (1500.00 <-> 150000).
C24_ConversionExactAndInvertible ==
  conversion.pc = "converted"
  => /\ conversion.kopiyky = AmountTimes100(conversion.amount)
     /\ Decimal(conversion.kopiyky \div 100, conversion.kopiyky % 100)
          = conversion.amount

\* 1500.00 was converted to 150000 from a double below the decimal
C24_Witness ==
  /\ conversion.pc = "converted"
  /\ conversion.amount = Decimal(1500, 0)
  /\ conversion.error < 0
  /\ conversion.kopiyky = 150000

\* C25: a request for a payment that has a receipts row of an earlier,
\* ended request while its receipt_issued is still false is not submitted
\* to the fiscal API again: it only re-applies the flag.
C25_ReconcilesWithoutResubmission ==
  [][ \A k \in IssueCalls :
        ( /\ issue[k].pc = "idle" /\ issue'[k].pc # "idle"
          /\ IsStored(payments, issue'[k].paymentId)
          /\ ~PaymentById(payments, issue'[k].paymentId).receipt_issued
          /\ ReceiptsOf(receipts, issue'[k].paymentId) # {}
          /\ \E h \in IssueCalls :
               /\ issue[h].pc = "done"
               /\ issue[h].paymentId = issue'[k].paymentId
               /\ issue[h].receiptId # NoId )
        => /\ ~issue'[k].submitted
           /\ issue'[k].pc # "checkbox" ]_vars

\* C26: a request sends at most one receipt request to the fiscal API, and
\* a failure of it ends the request with 502 'Failed to create receipt in
\* Checkbox' without a retry and without a receipts row.
C26_NoFiscalRetry ==
  \A k \in IssueCalls :
    /\ issue[k].fiscalRequests <= 1
    /\ issue[k].submitted <=> issue[k].fiscalRequests = 1
    /\ issue[k].pc = "checkbox" => issue[k].fiscalRequests = 1
    /\ issue[k].status = 502
         => /\ issue[k].pc = "done"
            /\ issue[k].error = "Failed to create receipt in Checkbox"
            /\ issue[k].fiscalRequests = 1
            /\ issue[k].receiptId = NoId

\* a request ended with the fiscal failure after its one submission
C26_Witness ==
  \E k \in IssueCalls :
    /\ issue[k].pc = "done"
    /\ issue[k].status = 502
    /\ issue[k].fiscalRequests = 1
    /\ ReceiptsOf(receipts, issue[k].paymentId) = {}

\* C27: a step of ingestion leaves the receipts table and every stored
\* payment as they were, duplicates included; the rows it adds have
\* receipt_issued = false.
C27_IngestOnlyAddsUnissued ==
  [][ /\ receipts' = receipts
      /\ Len(payments') >= Len(payments)
      /\ \A i \in 1..Len(payments) : payments'[i] = payments[i]
      /\ \A i \in (Len(payments) + 1)..Len(payments') :
           ~payments'[i].receipt_issued ]_vars

\* a request that met a duplicate of an issued payment and stored a new
\* payment has ended
C27_Witness ==
  \E j \in IngestCalls :
    /\ ingest[j].pc = "done"
    /\ ingest[j].duplicates > 0
    /\ ingest[j].newPayments > 0
    /\ receipts # <<>>
    /\ \E i \in 1..Len(payments) :
         /\ payments[i].company_id = ingest[j].companyId
         /\ payments[i].receipt_issued
         /\ ReceiptsOf(receipts, payments[i].id) # {}
    /\ \E i \in 1..Len(payments) : ~payments[i].receipt_issued

\* C28: the list never has two issue requests for the same payment in
\* flight, however the clicks on its buttons interleave.
C28_OneRequestInFlightPerPayment ==
  \A b, c \in Clicks :
    ( /\ b # c
      /\ list.calls[b].pc = "fetch"
      /\ list.calls[c].pc = "fetch" )
    => list.calls[b].paymentId # list.calls[c].paymentId

C30_RepeatedIdIsDuplicate ==
  [][ \A j \in IngestCalls :
        ( /\ ingest[j].pc = "select" /\ ingest[j].i > 1
          /\ ingest'[j] # ingest[j]
          /\ ingest[j].tx.wellFormed
          /\ ingest'[j].tx.ID = ingest[j].tx.ID )
        => /\ ingest'[j].duplicates = ingest[j].duplicates + 1
           /\ ingest'[j].errors = ingest[j].errors
           /\ payments' = payments
           /\ Cardinality(RowsOf(payments, ingest[j].companyId,
                                 ingest[j].tx.ID)) = 1 ]_vars

====
